---- MODULE Spec2Model ----
(***************************************************************************)
(* N_SelfSwitchControl: the "selfswitch" plugin command of RPG Maker MZ.   *)
(* Two revisions of the plugin are modelled side by side:                  *)
(*   "1.0.0"  src/js/plugins/N_SelfSwitchControl.js  (validates upfront)   *)
(*   "1.1.1"  src/unnamed/part_000                   (comma groups)        *)
(*                                                                         *)
(* Strings are sequences of symbols.  The symbols are single characters,   *)
(* except "all" and "Infinity", which stand for those words: no other      *)
(* symbol of the alphabet is a letter of them, so a string equals the word *)
(* exactly when it is the one-symbol sequence.                             *)
(*                                                                         *)
(* JavaScript numbers are integers >= 0 plus three values below zero that  *)
(* no selector can denote ("-" is always consumed as the range separator): *)
(* NaN, Infinity, and Huge, the finite values above MaxCount that a loop   *)
(* counting towards Infinity runs through.                                 *)
(***************************************************************************)
EXTENDS Integers, Sequences, FiniteSets, TLC

\* ------------------------------------------------------------------ bounds
MaxLen == 2        \* longest selector drawn from the whole alphabet
MaxGroups == 2     \* most groups of a selector drawn from the grammar
MaxId == 1         \* largest Id literal of a selector drawn from the grammar
MaxCount == 4      \* a loop towards Infinity counts exactly up to here

\* --------------------------------------------------------------- constants
COMMAND_ARG_STATE_ON == "On"
COMMAND_ARG_STATE_OFF == "Off"
COMMAND_ARG_STATE_TOGGLE == "Toggle"
COMMAND_ARG_EVENT_ALL == <<"all">>
COMMAND_ARG_EVENT_SEPARATOR == ","
COMMAND_ARG_EVENT_RANGE_SEPARATOR == "-"

NaN == -1
Infinity == -2
Huge == -3
undefined == <<"undefined">>

DigitChars == <<"0", "1", "2", "3", "4", "5", "6", "7", "8", "9">>
Digits == {DigitChars[k] : k \in 1..10}
Whitespace == {" "}

\* ------------------------------------------------------- JavaScript values
\* a <= b
JsLeq(a, b) ==
    IF a = NaN \/ b = NaN THEN FALSE
    ELSE IF b = Infinity THEN TRUE
    ELSE IF a = Infinity THEN FALSE
    ELSE IF a = Huge THEN b = Huge
    ELSE IF b = Huge THEN TRUE
    ELSE a <= b

\* a || b on numbers: 0 and NaN are falsy
JsOr(a, b) == IF a = 0 \/ a = NaN THEN b ELSE a

\* i++ inside a loop bounded by end
JsInc(i, end) ==
    IF i < 0 THEN i
    ELSE IF end = Infinity /\ i >= MaxCount THEN Huge
    ELSE i + 1

\* ----------------------------------------------------------------- strings
\* s.trim(): the string without its leading and trailing whitespace
Trim(s) ==
    LET inner == {k \in 1..Len(s) : s[k] \notin Whitespace} IN
    IF inner = {} THEN <<>>
    ELSE SubSeq(s, CHOOSE k \in inner : \A j \in inner : k <= j,
                   CHOOSE k \in inner : \A j \in inner : j <= k)

DigitVal(c) == CHOOSE d \in 0..9 : DigitChars[d + 1] = c

\* the value of the decimal digits s[1..k]
RECURSIVE DecimalUpTo(_, _)
DecimalUpTo(s, k) ==
    IF k = 0 THEN 0 ELSE 10 * DecimalUpTo(s, k - 1) + DigitVal(s[k])

Decimal(s) == DecimalUpTo(s, Len(s))

\* Number(s) for a string, or for undefined (a missing element of a split)
Number(s) ==
    IF s = undefined THEN NaN
    ELSE LET t == Trim(s) IN
         IF t = <<>> THEN 0
         ELSE IF \A k \in 1..Len(t) : t[k] \in Digits THEN Decimal(t)
         ELSE IF t = <<"Infinity">> THEN Infinity
         ELSE NaN

\* s.split(sep): the pieces between the separators, empty pieces kept
Split(s, sep) ==
    LET at == {k \in 1..Len(s) : s[k] = sep}
        \* the position of the j-th separator; 0 and Len(s) + 1 fence the ends
        pos(j) == IF j = 0 THEN 0
                  ELSE IF j > Cardinality(at) THEN Len(s) + 1
                  ELSE CHOOSE k \in at :
                           Cardinality({m \in at : m < k}) = j - 1
    IN [j \in 1..(Cardinality(at) + 1) |->
           SubSeq(s, pos(j - 1) + 1, pos(j) - 1)]

\* s.replace(/\s/g, "")
StripWhitespace(s) == SelectSeq(s, LAMBDA c : c \notin Whitespace)

\* a[k] of a JavaScript array, k counted from 0
At(a, k) == IF k + 1 <= Len(a) THEN a[k + 1] ELSE undefined

\* ------------------------------------------------------------ host objects
\* $gameSelfSwitches: the keys whose value is true; a key is
\* <<mapId, eventId, switchId>>
Key(mapId, eventId, switchId) == <<mapId, eventId, switchId>>

\* $gameSelfSwitches.value(key): an absent key reads as false
value(store, key) == IF key \in store THEN "true" ELSE "false"

\* $gameSelfSwitches.setValue(key, v): a falsy v removes the key
setValue(store, key, v) ==
    IF v = "true" THEN store \cup {key} ELSE store \ {key}

\* !v
JsNot(v) == IF v = "true" THEN "false" ELSE "true"

\* the event arrays of the project's maps, slot k holding event k or null
Null == 0
MapEvents(m) == IF m = 1 THEN <<Null, 1, Null, 3>> ELSE <<Null, 1, 2>>

\* ---------------------------------------------------------------- state
VARIABLES
    plugin,            \* the revision that is installed
    selfSwitches,      \* $gameSelfSwitches
    interpreterMapId,  \* this._mapId, the map the invoking event is on
    pc,                \* "idle", "loop" (inside the for-of) or "done"
    args,              \* the arguments of the invocation
    mapId,             \* const mapId of the handler
    gen,               \* the suspended generator the for-of iterates
    yielded,           \* history: the ids the generator has yielded
    log,               \* history: the store accesses of the latest
                       \* changeSelfSwitch call
    before,            \* history: $gameSelfSwitches at the invocation
    passes             \* history: the number of passes of the for-of, mod 2

vars == <<plugin, selfSwitches, interpreterMapId, pc, args, mapId, gen,
          yielded, log, before, passes>>

\* $dataMap: the data of the map the player, and the invoking event, is on
dataMapEvents == MapEvents(interpreterMapId)

\* ------------------------------------------------------------- generators
\* A suspended generator: ids still to be yielded one by one (queue), the
\* counters of a range loop in progress (active, i, end) and the groups not
\* yet started (groups).
Generator(groups, active, i, end, queue) ==
    [groups |-> groups, active |-> active, i |-> i, end |-> end,
     queue |-> queue]

NoGenerator == Generator(<<>>, FALSE, 0, 0, <<>>)

\* getAllEventIDs: the ids of the non-null slots of $dataMap.events
getAllEventIDs == SelectSeq(dataMapEvents, LAMBDA e : e # Null)

\* ---- revision 1.1.1
\* faulty variant: a single id gets no end: "|| i" is left out
getEventIDsInRange_NoDefaultEnd(range, groups) ==
    LET split == Split(range, COMMAND_ARG_EVENT_RANGE_SEPARATOR)
        i == Number(At(split, 0))
        end == Number(At(split, 1))
    IN [groups |-> groups, active |-> TRUE, i |-> i, end |-> end,
        queue |-> <<>>]

\* getEventIDsInRange(range), up to its loop
getEventIDsInRange_1_1_1(range, groups) ==
    LET split == Split(range, COMMAND_ARG_EVENT_RANGE_SEPARATOR)
        i == Number(At(split, 0))
        end == JsOr(Number(At(split, 1)), i)
    IN Generator(groups, TRUE, i, end, <<>>)

getEventIds_1_1_1(events) ==
    IF events = COMMAND_ARG_EVENT_ALL
    THEN Generator(<<>>, FALSE, 0, 0, getAllEventIDs)
    ELSE Generator(Split(StripWhitespace(events), COMMAND_ARG_EVENT_SEPARATOR),
                   FALSE, 0, 0, <<>>)

\* ---- revision 1.0.0
isValidId(id) ==
    LET n == Number(id) IN n # NaN /\ n >= 0

isValidEventId(id) ==
    LET split == Split(id, COMMAND_ARG_EVENT_RANGE_SEPARATOR) IN
    id = COMMAND_ARG_EVENT_ALL \/ \A k \in 1..Len(split) : isValidId(split[k])

getEventIds_1_0_0(eventId) ==
    IF eventId = COMMAND_ARG_EVENT_ALL
    THEN Generator(<<>>, FALSE, 0, 0, getAllEventIDs)
    ELSE IF \E k \in 1..Len(eventId) :
                eventId[k] = COMMAND_ARG_EVENT_RANGE_SEPARATOR
    THEN LET split == Split(eventId, COMMAND_ARG_EVENT_RANGE_SEPARATOR)
             first == Number(At(split, 0))
             last == Number(At(split, 1))
         IN Generator(<<>>, TRUE, first, last, <<>>)
    ELSE Generator(<<>>, FALSE, 0, 0, <<Number(eventId)>>)

\* the generator has nothing to yield before its next group
Exhausted(g) == g.queue = <<>> /\ ~(g.active /\ JsLeq(g.i, g.end))

\* the id the generator yields next
Yield(g) == IF g.queue # <<>> THEN Head(g.queue) ELSE g.i

\* the generator once that id is yielded: "yield i++", or the next event
Advance(g) ==
    IF g.queue # <<>> THEN [g EXCEPT !.queue = Tail(g.queue)]
    ELSE [g EXCEPT !.i = JsInc(g.i, g.end)]

\* ------------------------------------------------------------ the updater
\* faulty variant: Toggle writes back the value it read
Resolve_NoNegation(state, read) ==
    IF state = COMMAND_ARG_STATE_ON THEN "true"
    ELSE IF state = COMMAND_ARG_STATE_OFF THEN "false"
    ELSE IF state = COMMAND_ARG_STATE_TOGGLE THEN read
    ELSE "undefined"

\* the value the object literal of changeSelfSwitch holds under state; every
\* property of the literal is evaluated, the Toggle one reads the store
Resolve(state, read) ==
    IF state = COMMAND_ARG_STATE_ON THEN "true"
    ELSE IF state = COMMAND_ARG_STATE_OFF THEN "false"
    ELSE IF state = COMMAND_ARG_STATE_TOGGLE THEN JsNot(read)
    ELSE "undefined"

\* faulty variant: the store is read only when the state is Toggle
changeSelfSwitch_LazyRead(store, m, eventId, switchId, state) ==
    LET key == <<m, eventId, switchId>>
        read == IF key \in store THEN "true" ELSE "false"
        v == IF state = COMMAND_ARG_STATE_ON THEN "true"
             ELSE IF state = COMMAND_ARG_STATE_OFF THEN "false"
             ELSE IF state = COMMAND_ARG_STATE_TOGGLE
             THEN (IF read = "true" THEN "false" ELSE "true")
             ELSE "undefined"
    IN [store |-> IF v = "true" THEN store \cup {key} ELSE store \ {key},
        log |-> (IF state = COMMAND_ARG_STATE_TOGGLE
                 THEN <<[op |-> "value", key |-> key, val |-> read]>>
                 ELSE <<>>)
                \o <<[op |-> "setValue", key |-> key, val |-> v]>>]

\* faulty variant: Toggle reads and writes, On and Off write nothing back
changeSelfSwitch_ToggleOnly(store, m, eventId, switchId, state) ==
    LET key == <<m, eventId, switchId>>
        read == IF key \in store THEN "true" ELSE "false"
        v == IF state = COMMAND_ARG_STATE_TOGGLE
             THEN (IF read = "true" THEN "false" ELSE "true")
             ELSE read
    IN [store |-> IF v = "true" THEN store \cup {key} ELSE store \ {key},
        log |-> <<[op |-> "value", key |-> key, val |-> read],
                  [op |-> "setValue", key |-> key, val |-> v]>>]

\* changeSelfSwitch: the store afterwards and the accesses made, in order
changeSelfSwitch(store, m, eventId, switchId, state) ==
    LET key == Key(m, eventId, switchId)
        read == value(store, key)
        v == Resolve(state, read)
    IN [store |-> setValue(store, key, v),
        log |-> <<[op |-> "value", key |-> key, val |-> read],
                  [op |-> "setValue", key |-> key, val |-> v]>>]

\* ----------------------------------------------------------------- inputs
Alphabet == {"0", "1", "2", "-", ",", " ", "z", "Infinity"}

Strings(n) == UNION {[1..k -> Alphabet] : k \in 0..n}

Join(a, sep, b) == a \o <<sep>> \o b

Literal(n) == <<DigitChars[n + 1]>>

GrammarGroups ==
    {Literal(a) : a \in 0..MaxId}
    \cup {Join(Literal(a), "-", Literal(b)) : a \in 0..MaxId, b \in 0..MaxId}

RECURSIVE GrammarSelectors(_)
GrammarSelectors(n) ==
    IF n = 1 THEN GrammarGroups
    ELSE LET shorter == GrammarSelectors(n - 1) IN
         shorter \cup {Join(s, ",", g) : s \in shorter, g \in GrammarGroups}

\* the selectors of the plugin's help and of the specification's examples
\* ("z" standing for a letter), and some malformed ones
Examples ==
    { <<"3">>, <<"2", ",", "4">>, <<"5", "-", "1", "2">>,
      <<"1", "-", "3", ",", "5">>, <<"7", "-", "3">>, <<"5", "-", "0">>,
      <<"1", "-", "3", ",", "2">>, <<" ", "1", " ", "-", "3", ",", " ", "5">>,
      <<"z", "z", "z">>, <<"1", ",", "z">>, <<"1", "-", "z">>,
      <<"1", "-", "2", "-", "3">>, <<"1", ",", ",", "2">>,
      <<"1", "-", "Infinity">> }

Selectors ==
    Strings(MaxLen) \cup GrammarSelectors(MaxGroups) \cup Examples
        \cup {COMMAND_ARG_EVENT_ALL}

States == {COMMAND_ARG_STATE_ON, COMMAND_ARG_STATE_OFF,
           COMMAND_ARG_STATE_TOGGLE, "Flip"}
Switches == {"A", "B"}
MapArgs == {<<"0">>, <<"2">>}

Args == [state : States, map : MapArgs, event : Selectors, switch : Switches]

NoArgs == [state |-> "", map |-> <<>>, event |-> <<>>, switch |-> ""]

InitialStores == {{}, {Key(1, 1, "A"), Key(2, 1, "A"), Key(2, 2, "B")}}

\* ---------------------------------------------------------------- actions
Init ==
    /\ plugin \in {"1.0.0", "1.1.1"}
    /\ selfSwitches \in InitialStores
    /\ interpreterMapId = 1
    /\ pc = "idle"
    /\ args = NoArgs
    /\ mapId = 0
    /\ gen = NoGenerator
    /\ yielded = <<>>
    /\ log = <<>>
    /\ before = selfSwitches
    /\ passes = 0

\* the handler of revision 1.1.1, up to its for-of
Command_1_1_1(inputs) ==
    /\ plugin = "1.1.1"
    /\ pc = "idle"
    /\ \E a \in inputs :
       /\ args' = a
       /\ mapId' = JsOr(Number(a.map), interpreterMapId)
       /\ gen' = getEventIds_1_1_1(a.event)
       /\ pc' = "loop"
       /\ UNCHANGED <<plugin, selfSwitches, interpreterMapId, yielded, log,
                    before, passes>>

\* the handler of revision 1.0.0, up to its for-of
Command_1_0_0(inputs) ==
    /\ plugin = "1.0.0"
    /\ pc = "idle"
    /\ \E a \in inputs :
       /\ args' = a
       /\ IF ~isValidEventId(a.event)
          THEN /\ pc' = "done"
               /\ UNCHANGED <<mapId, gen>>
          ELSE /\ mapId' = JsOr(Number(a.map), interpreterMapId)
               /\ gen' = getEventIds_1_0_0(a.event)
               /\ pc' = "loop"
       /\ UNCHANGED <<plugin, selfSwitches, interpreterMapId, yielded, log,
                    before, passes>>

\* the history of yielded ids; a non-finite id yielded again and again is
\* kept once
Record(ids, id) ==
    IF id < 0 /\ ids # <<>> /\ ids[Len(ids)] = id THEN ids ELSE Append(ids, id)

\* one pass of the for-of: the generator yields eventId, changeSelfSwitch runs
LoopBody ==
    /\ pc = "loop"
    /\ ~Exhausted(gen)
    /\ \E c \in {changeSelfSwitch(selfSwitches, mapId, Yield(gen), args.switch,
                                  args.state)} :
       /\ selfSwitches' = c.store
       /\ log' = c.log
    /\ gen' = Advance(gen)
    /\ yielded' = Record(yielded, Yield(gen))
    /\ passes' = 1 - passes
    /\ UNCHANGED <<plugin, interpreterMapId, pc, args, mapId, before>>

\* revision 1.1.1: a group is done, getEventIDsInRange starts on the next
NextGroup ==
    /\ pc = "loop"
    /\ Exhausted(gen)
    /\ gen.groups # <<>>
    /\ gen' = getEventIDsInRange_1_1_1(Head(gen.groups), Tail(gen.groups))
    /\ UNCHANGED <<plugin, selfSwitches, interpreterMapId, pc, args, mapId,
                   yielded, log, before, passes>>

\* the generator is done: the for-of and the handler end
LoopExit ==
    /\ pc = "loop"
    /\ Exhausted(gen)
    /\ gen.groups = <<>>
    /\ gen' = NoGenerator
    /\ pc' = "done"
    /\ UNCHANGED <<plugin, selfSwitches, interpreterMapId, args, mapId,
                   yielded, log, before, passes>>

Next ==
    \/ Command_1_1_1(Args)
    \/ Command_1_0_0(Args)
    \/ LoopBody
    \/ NextGroup
    \/ LoopExit

Spec == Init /\ [][Next]_vars

\* The same program on the selectors drawn from the whole alphabet.  The
\* handler is one synchronous callback: once entered, the for-of runs on.
ShortArgs ==
    [state : States, map : MapArgs, event : Strings(MaxLen), switch : Switches]

NextShort ==
    \/ Command_1_1_1(ShortArgs)
    \/ Command_1_0_0(ShortArgs)
    \/ LoopBody
    \/ NextGroup
    \/ LoopExit

FairSpec == Init /\ [][NextShort]_vars /\ WF_vars(LoopBody \/ NextGroup \/ LoopExit)

\* ======================================================================
\* The vocabulary of the specification: the selector grammar and what a
\* selector expands to, stated without the plugin's code.
\* ======================================================================
IsIdLiteral(t) == t # <<>> /\ \A k \in 1..Len(t) : t[k] \in Digits

IsGroup(g) ==
    LET t == Split(g, "-") IN
    Len(t) \in {1, 2} /\ \A k \in 1..Len(t) : IsIdLiteral(t[k])

\* Selector := Group ("," Group)*, whitespace ignored; "all" is not one
WellFormed(s) ==
    LET groups == Split(StripWhitespace(s), ",") IN
    \A k \in 1..Len(groups) : IsGroup(groups[k])

RECURSIVE Ascending(_, _)
Ascending(a, b) == IF a > b THEN <<>> ELSE <<a>> \o Ascending(a + 1, b)

GroupExpansion(g) ==
    LET t == Split(g, "-") IN
    IF Len(t) = 1 THEN <<Decimal(t[1])>>
    ELSE Ascending(Decimal(t[1]), Decimal(t[2]))

RECURSIVE Concat(_)
Concat(ss) == IF ss = <<>> THEN <<>> ELSE Head(ss) \o Concat(Tail(ss))

Expansion(s) ==
    LET groups == Split(StripWhitespace(s), ",") IN
    Concat([k \in 1..Len(groups) |-> GroupExpansion(groups[k])])

\* every range group of the selector has first <= last
AscendingRanges(s) ==
    LET groups == Split(StripWhitespace(s), ",") IN
    \A k \in 1..Len(groups) :
        LET t == Split(groups[k], "-") IN
        Len(t) = 2 => Decimal(t[1]) <= Decimal(t[2])

\* the selector is one range group first-last with first > last
DescendingRange(s) ==
    LET t == Split(s, "-") IN
    /\ Len(t) = 2
    /\ IsIdLiteral(t[1]) /\ IsIdLiteral(t[2])
    /\ Decimal(t[1]) > Decimal(t[2])

Elements(seq) == {seq[k] : k \in 1..Len(seq)}

Occurrences(seq, x) == Cardinality({k \in 1..Len(seq) : seq[k] = x})

\* the map the command targets: the map argument, the current map when 0
TargetMap ==
    IF Decimal(args.map) = 0 THEN interpreterMapId ELSE Decimal(args.map)

KeysOf(ids) == {<<mapId, id, args.switch>> : id \in ids}

Invoked == pc # "idle"
Completed == pc = "done"
ValidState ==
    args.state \in {COMMAND_ARG_STATE_ON, COMMAND_ARG_STATE_OFF,
                    COMMAND_ARG_STATE_TOGGLE}

Reads == SelectSeq(log, LAMBDA e : e.op = "value")
Writes == SelectSeq(log, LAMBDA e : e.op = "setValue")
LastYielded == yielded[Len(yielded)]

\* ======================================================================
\* The claims
\* ======================================================================

\* C1: a selector that is not well-formed (and is not "all") makes the
\* command call changeSelfSwitch not at all: no id is yielded, the store is
\* not accessed and equals the store before the invocation.
C1_FailFast ==
    (Invoked /\ args.event # COMMAND_ARG_EVENT_ALL /\ ~WellFormed(args.event))
    => (yielded = <<>> /\ log = <<>> /\ selfSwitches = before)

\* C2: in revision 1.1.1, a well-formed selector whose ranges all have
\* first <= last yields exactly the concatenation, in group order, of [n]
\* for a single Id n and of first..last ascending for a range, duplicates
\* kept; while the loop runs, what was yielded is a prefix of it.
C2_Concatenation ==
    (plugin = "1.1.1" /\ Invoked /\ WellFormed(args.event)
        /\ AscendingRanges(args.event))
    => LET e == Expansion(args.event) IN
       /\ Len(yielded) <= Len(e)
       /\ yielded = SubSeq(e, 1, Len(yielded))
       /\ Completed => yielded = e

\* C2 witness: "1-3,5" has run to completion and yielded 1, 2, 3, 5.
C2_Witness ==
    /\ plugin = "1.1.1" /\ Completed
    /\ args.event = <<"1", "-", "3", ",", "5">>
    /\ yielded = <<1, 2, 3, 5>>

\* C3: in revision 1.1.1, a well-formed selector, a map argument m > 0 and
\* state On leave the store equal to the store before plus exactly the keys
\* (m, id, switch) of the ids of the selector's expansion.
C3_Frame ==
    (plugin = "1.1.1" /\ Completed /\ WellFormed(args.event)
        /\ Decimal(args.map) > 0 /\ args.state = COMMAND_ARG_STATE_ON)
    => selfSwitches = before \cup
           {<<Decimal(args.map), id, args.switch>> :
               id \in Elements(Expansion(args.event))}

\* C4: with the selector "all" the ids yielded are the ids of the non-null
\* event slots of the target map, in slot order.
C4_AllOfTargetMap ==
    (Completed /\ args.event = COMMAND_ARG_EVENT_ALL)
    => yielded = SelectSeq(MapEvents(TargetMap), LAMBDA e : e # Null)

\* C5: every update leaves its key true under On, false under Off, and
\* under Toggle the negation of what the key read before (absent = false).
C5_ResolutionTable ==
    [][passes' # passes =>
        LET K == <<mapId, LastYielded', args.switch>> IN
        /\ args.state = COMMAND_ARG_STATE_ON =>
               value(selfSwitches', K) = "true"
        /\ args.state = COMMAND_ARG_STATE_OFF =>
               value(selfSwitches', K) = "false"
        /\ args.state = COMMAND_ARG_STATE_TOGGLE =>
               (value(selfSwitches', K) = JsNot(value(selfSwitches, K)))]_vars

\* C5 witness: Toggle has run on a key that was absent and is true now, and
\* on a key that was true and is false now.
C5_Witness ==
    /\ args.state = COMMAND_ARG_STATE_TOGGLE /\ Completed
    /\ \E k \in selfSwitches : k \notin before
    /\ \E k \in before : k \notin selfSwitches

\* C6: a selector that is one range first-last with first > last yields no
\* id and writes nothing.
C6_EmptyRange ==
    (Completed /\ DescendingRange(args.event))
    => (yielded = <<>> /\ log = <<>> /\ selfSwitches = before)

\* C7: with a state that is none of On, Off, Toggle no setValue is made and
\* the store stays as it was.
C7_InvalidModeWritesNothing ==
    (Invoked /\ ~ValidState)
    => (Writes = <<>> /\ selfSwitches = before)

\* C8 as stated: each update makes exactly one setValue, on its key, and
\* reads the store exactly once under Toggle and not at all under On or Off.
C8_ReadOnlyUnderToggle ==
    log # <<>> =>
        /\ Len(Writes) = 1
        /\ Writes[1].key = <<mapId, LastYielded, args.switch>>
        /\ Len(Reads) = (IF args.state = COMMAND_ARG_STATE_TOGGLE THEN 1 ELSE 0)

\* C8 as amended: each update makes exactly one setValue, on its key, after
\* exactly one read of that key, whatever the state.
C8_OneReadOneWrite ==
    log # <<>> =>
        /\ Len(Writes) = 1 /\ Len(Reads) = 1
        /\ log[1].op = "value" /\ log[2].op = "setValue"
        /\ log[1].key = <<mapId, LastYielded, args.switch>>
        /\ log[2].key = <<mapId, LastYielded, args.switch>>

\* C8 witness: an update under On has read the store.
C8_Witness ==
    /\ args.state = COMMAND_ARG_STATE_ON
    /\ Len(Reads) = 1 /\ Len(Writes) = 1

\* the store after each id of the set is updated once from the store s
UpdatedOnce(s, ids) ==
    IF args.state = COMMAND_ARG_STATE_ON THEN s \cup KeysOf(ids)
    ELSE IF args.state = COMMAND_ARG_STATE_OFF THEN s \ KeysOf(ids)
    ELSE (s \ KeysOf(ids)) \cup (KeysOf(ids) \ s)

\* C9 as stated: under On, Off and Toggle alike the store after the command
\* is the store with each distinct yielded id updated exactly once.
C9_DuplicatesIdempotent ==
    (Completed /\ ValidState)
    => selfSwitches = UpdatedOnce(before, Elements(yielded))

\* C9 as amended: under On and Off the store after the command is the store
\* with each distinct yielded id updated once; under Toggle it is the store
\* with exactly the ids yielded an odd number of times toggled once.
C9_DuplicatesByParity ==
    (Completed /\ ValidState)
    => selfSwitches =
        UpdatedOnce(before,
            IF args.state = COMMAND_ARG_STATE_TOGGLE
            THEN {id \in Elements(yielded) : Occurrences(yielded, id) % 2 = 1}
            ELSE Elements(yielded))

\* C9 witness: "1,1" under Toggle has updated key 1 twice and left the
\* store, in which the key was true, as it was.
C9_Witness ==
    /\ Completed /\ args.state = COMMAND_ARG_STATE_TOGGLE
    /\ args.event = <<"1", ",", "1">>
    /\ yielded = <<1, 1>>
    /\ <<mapId, 1, args.switch>> \in before
    /\ selfSwitches = before

\* C10: every invocation runs to completion.
C10_Terminates == (pc = "loop") ~> (pc = "done")

====
